---- MODULE Spec2Model ----
(***************************************************************************)
(* Model of the ingestion-and-enrichment pipeline of                       *)
(* medical-telegram-warehouse: the partitioned JSON record store written   *)
(* by TelegramScraper.save_messages, the PostgresLoader that promotes the  *)
(* partitions into raw.telegram_messages, the YOLODetector that classifies *)
(* one image from its detection list and a directory of images, the        *)
(* loader of raw.yolo_detections, the collector's loop over the channels   *)
(* and the Dagster job that runs the four programs.                        *)
(***************************************************************************)
EXTENDS Integers, Sequences, FiniteSets, TLC

VARIABLES
    files,      \* data/raw/telegram_messages/<date>/<channel>.json, by <<date, channel>>
    table,      \* rows of raw.telegram_messages (generated columns left out)
    log,        \* outcome of the last operation: what it returned, raised and logged
    saves,      \* number of save_messages calls made so far
    loads,      \* number of loader runs made so far
    detections, \* the detection list YOLO produced for the image being processed
    result,     \* the dictionary process_image returned for it
    images,     \* the image files under data/raw/images
    csv,        \* data/processed/yolo_detections.csv: absent, or its data rows
    yolo_table, \* rows of raw.yolo_detections (generated columns left out)
    schema_raw, \* whether schema raw exists in the database
    classifies, \* number of runs of yolo_detect.py made so far
    stage,      \* status of each op of the run of telegram_data_pipeline
    runlog      \* what the subordinate processes of each op did, once it ended

vars == <<files, table, log, saves, loads, detections, result,
          images, csv, yolo_table, schema_raw, classifies, stage, runlog>>

\* the state of the image classifier and of the orchestrator
enrichment == <<images, csv, yolo_table, schema_raw, classifies>>
orchestration == <<stage, runlog>>

(***************************************************************************)
(* Bounds of the model.                                                    *)
(***************************************************************************)
MaxSaves == 2   \* save_messages calls (completed, raised or crashed) per behaviour
MaxLoads == 2   \* loader runs per behaviour
MaxDetections == 3  \* longest detection list of one image

(***************************************************************************)
(* Program constants.                                                      *)
(***************************************************************************)
PERSON_CLASS == 0
BOTTLE_CLASS == 39
BOWL_CLASS == 40
CUP_CLASS == 41
CONTAINER_CLASSES == {39, 40, 41}

TELEGRAM_CHANNELS == <<"chemed", "lobelia4cosmetics">>
Channels == {TELEGRAM_CHANNELS[i] : i \in DOMAIN TELEGRAM_CHANNELS}

(***************************************************************************)
(* Messages.  message_date is the ISO string message.date.isoformat()      *)
(* split into its date, time and offset parts; NoneDate stands for None.   *)
(***************************************************************************)
NoneDate == [date |-> "None", time |-> "None", tz |-> "None"]
NoneId == -1    \* stands for a message_id of None (JSON null)
IsoDate(d, t) == [date |-> d, time |-> t, tz |-> "+00:00"]

Dates == {"2024-01-01", "2024-01-02"}

Message(id, ch, md, v) ==
    [message_id |-> id, channel_name |-> ch, message_date |-> md,
     message_text |-> "", has_media |-> FALSE, image_path |-> "None",
     views |-> v, forwards |-> 0]

\* The messages the batches are made of.  First channel: message 1 as two
\* scrapes saw it (its view count changed in between), message 2 of another
\* day and the same message_id handed over with another date, a message
\* whose message_id is None, and a message without date.
\* Second channel: a message with the message_id of a message of the first.
Msg1 == Message(1, TELEGRAM_CHANNELS[1], IsoDate("2024-01-01", "10:00:00"), 0)
Msg1Later == Message(1, TELEGRAM_CHANNELS[1], IsoDate("2024-01-01", "10:00:00"), 7)
Msg2 == Message(2, TELEGRAM_CHANNELS[1], IsoDate("2024-01-02", "09:00:00"), 3)
Msg2Redated == Message(2, TELEGRAM_CHANNELS[1], IsoDate("2024-01-01", "23:30:00"), 4)
MsgNoId == Message(NoneId, TELEGRAM_CHANNELS[1], IsoDate("2024-01-02", "11:00:00"), 0)
MsgNoDate == Message(3, TELEGRAM_CHANNELS[1], NoneDate, 0)
MsgOther == Message(1, TELEGRAM_CHANNELS[2], IsoDate("2024-01-01", "18:30:00"), 5)

\* The message lists save_messages is called with.
Batches ==
    [ch \in Channels |->
        IF ch = TELEGRAM_CHANNELS[1]
        THEN { <<>>, <<Msg1>>, <<Msg1Later>>, <<Msg2>>, <<Msg2Redated>>, <<MsgNoId>>,
               <<Msg1, Msg1Later>>, <<Msg1, Msg2>>, <<Msg2, MsgNoId>>,
               <<MsgNoDate, Msg1>> }
        ELSE { <<MsgOther>> }]

RECURSIVE SeqsUpTo(_, _)
SeqsUpTo(S, n) ==
    IF n = 0 THEN {<<>>}
    ELSE LET shorter == SeqsUpTo(S, n - 1)
         IN  shorter \cup {Append(s, x) : s \in {t \in shorter : Len(t) = n - 1}, x \in S}

(***************************************************************************)
(* Partition files.  A file is absent, holds a JSON list (data), or is     *)
(* corrupt: its bytes are a strict prefix of a JSON text (any prefix, the  *)
(* empty one included), which json.load rejects.                           *)
(***************************************************************************)
FileKeys == Dates \X Channels
AbsentFile == [st |-> "absent", data |-> <<>>]
JsonFile(msgs) == [st |-> "ok", data |-> msgs]
TruncatedFile == [st |-> "corrupt", data |-> <<>>]

\* datetime.fromisoformat(msg["message_date"]).strftime("%Y-%m-%d")
DateStr(md) == md.date

\* if msg.get("message_date"): None is falsy
HasDate(msg) == msg.message_date # NoneDate

\* messages_by_date: the keys in order of first insertion
RECURSIVE DateKeys(_)
DateKeys(messages) ==
    IF messages = <<>> THEN <<>>
    ELSE LET front == SubSeq(messages, 1, Len(messages) - 1)
             msg == messages[Len(messages)]
             keys == DateKeys(front)
         IN  IF HasDate(msg) /\ \A i \in DOMAIN keys : keys[i] # DateStr(msg.message_date)
             THEN Append(keys, DateStr(msg.message_date))
             ELSE keys

\* messages_by_date[date_str]
date_messages(messages, date_str) ==
    SelectSeq(messages, LAMBDA msg : HasDate(msg) /\ DateStr(msg.message_date) = date_str)

\* existing_data as loaded from the partition file ([] when it does not exist)
existing_data(file) == IF file.st = "absent" THEN <<>> ELSE file.data

\* new_messages without the test against existing_ids
new_messages_unfiltered(file, msgs) == msgs

\* new_messages: the messages of the date whose message_id is not in existing_ids
new_messages(file, msgs) ==
    LET existing_ids == {existing_data(file)[i].message_id : i \in DOMAIN existing_data(file)}
    IN  SelectSeq(msgs, LAMBDA msg : msg.message_id \notin existing_ids)

\* a merge in which a record of the batch replaces the stored record with
\* its message_id
MergePartition_overwrite(file, msgs) ==
    LET ids == {msgs[i].message_id : i \in DOMAIN msgs}
    IN  SelectSeq(existing_data(file), LAMBDA old : old.message_id \notin ids) \o msgs

\* existing_data.extend(new_messages): the list that is dumped to the file
MergePartition(file, msgs) == existing_data(file) \o new_messages(file, msgs)

\* the loop over messages_by_date.items(): json.load raises on a corrupt
\* file and the exception leaves save_messages; saved holds one entry per
\* "Saved N new messages to <file>" line
RECURSIVE SaveLoop(_, _, _, _, _)
SaveLoop(fs, keys, messages, channel_name, saved) ==
    IF keys = <<>> THEN [files |-> fs, status |-> "ok", saved |-> saved]
    ELSE LET file_path == <<keys[1], channel_name>>
             merged == MergePartition(fs[file_path], date_messages(messages, keys[1]))
             line == [file |-> file_path,
                      new |-> new_messages(fs[file_path], date_messages(messages, keys[1]))]
         IN  IF fs[file_path].st = "corrupt"
             THEN [files |-> fs, status |-> "raised", saved |-> saved]
             ELSE SaveLoop([fs EXCEPT ![file_path] = JsonFile(merged)],
                           Tail(keys), messages, channel_name, Append(saved, line))

save_messages(fs, messages, channel_name) ==
    IF messages = <<>> THEN [files |-> fs, status |-> "ok", saved |-> <<>>]
    ELSE SaveLoop(fs, DateKeys(messages), messages, channel_name, <<>>)

(***************************************************************************)
(* The relational loader.  A row of raw.telegram_messages is modelled by   *)
(* the eight columns the INSERT names; the table is the sequence of its    *)
(* rows in insertion order.                                                *)
(***************************************************************************)
NullTimestamp == [date |-> "NULL", time |-> "NULL"]

\* the cast of the ISO string to TIMESTAMP (without time zone) drops the offset
ToTimestamp(md) ==
    IF md = NoneDate THEN NullTimestamp ELSE [date |-> md.date, time |-> md.time]

\* one tuple of insert_data, as stored in the columns
InsertRow(msg) ==
    [message_id |-> msg.message_id, channel_name |-> msg.channel_name,
     message_date |-> ToTimestamp(msg.message_date), message_text |-> msg.message_text,
     has_media |-> msg.has_media, image_path |-> msg.image_path,
     views |-> msg.views, forwards |-> msg.forwards]

insert_data(messages) == [i \in DOMAIN messages |-> InsertRow(messages[i])]

\* message_id BIGINT NOT NULL, channel_name VARCHAR(255) NOT NULL
NotNullOk(row) == row.message_id # NoneId /\ row.channel_name # "None"

\* UNIQUE(message_id, channel_name)
SameKey(a, b) == a.message_id = b.message_id /\ a.channel_name = b.channel_name

\* an INSERT that stores every row, as if nothing detected the conflict
RECURSIVE InsertAll(_, _)
InsertAll(tbl, rows) ==
    IF rows = <<>> THEN tbl ELSE InsertAll(Append(tbl, rows[1]), Tail(rows))

\* INSERT ... ON CONFLICT (message_id, channel_name) DO UPDATE: the row of
\* the batch replaces the stored row
RECURSIVE InsertOnConflictDoUpdate(_, _)
InsertOnConflictDoUpdate(tbl, rows) ==
    IF rows = <<>> THEN tbl
    ELSE InsertOnConflictDoUpdate(
             IF \E i \in DOMAIN tbl : SameKey(tbl[i], rows[1])
             THEN [i \in DOMAIN tbl |-> IF SameKey(tbl[i], rows[1]) THEN rows[1] ELSE tbl[i]]
             ELSE Append(tbl, rows[1]),
             Tail(rows))

\* INSERT ... VALUES %s ON CONFLICT (message_id, channel_name) DO NOTHING
RECURSIVE InsertOnConflictDoNothing(_, _)
InsertOnConflictDoNothing(tbl, rows) ==
    IF rows = <<>> THEN tbl
    ELSE InsertOnConflictDoNothing(
             IF \E i \in DOMAIN tbl : SameKey(tbl[i], rows[1]) THEN tbl ELSE Append(tbl, rows[1]),
             Tail(rows))

\* what json.load and execute_values do with one partition file: "raise"
\* when the file does not parse or the statement fails, "skip" for an empty
\* list, otherwise "commit"
LoadOutcome(file) ==
    IF file.st = "corrupt" THEN "raise"
    ELSE IF file.data = <<>> THEN "skip"
    ELSE IF \E i \in DOMAIN file.data : ~NotNullOk(InsertRow(file.data[i])) THEN "raise"
    ELSE "commit"

\* a loop over json_files that the first exception leaves
RECURSIVE LoadLoop_abort(_, _, _, _, _)
LoadLoop_abort(fs, json_files, tbl, total_loaded, errors) ==
    IF json_files = <<>>
    THEN [table |-> tbl, total_loaded |-> total_loaded, errors |-> errors]
    ELSE LET json_file == json_files[1]
             outcome == LoadOutcome(fs[json_file])
         IN  IF outcome = "raise"
             THEN [table |-> tbl, total_loaded |-> total_loaded,
                   errors |-> Append(errors, json_file)]
             ELSE IF outcome = "skip"
             THEN LoadLoop_abort(fs, Tail(json_files), tbl, total_loaded, errors)
             ELSE LoadLoop_abort(fs, Tail(json_files),
                                 InsertOnConflictDoNothing(tbl, insert_data(fs[json_file].data)),
                                 total_loaded + Len(fs[json_file].data), errors)

\* the loop over json_files; errors holds one entry per "Error loading" line
RECURSIVE LoadLoop(_, _, _, _, _)
LoadLoop(fs, json_files, tbl, total_loaded, errors) ==
    IF json_files = <<>>
    THEN [table |-> tbl, total_loaded |-> total_loaded, errors |-> errors]
    ELSE LET json_file == json_files[1]
             outcome == LoadOutcome(fs[json_file])
         IN  IF outcome = "raise"
             THEN LoadLoop(fs, Tail(json_files), tbl, total_loaded, Append(errors, json_file))
             ELSE IF outcome = "skip"
             THEN LoadLoop(fs, Tail(json_files), tbl, total_loaded, errors)
             ELSE LoadLoop(fs, Tail(json_files),
                           InsertOnConflictDoNothing(tbl, insert_data(fs[json_file].data)),
                           total_loaded + Len(fs[json_file].data), errors)

load_json_files(fs, json_files, tbl) == LoadLoop(fs, json_files, tbl, 0, <<>>)

\* MESSAGES_DIR.rglob("*.json"): the files that exist, in an order the
\* file system chooses
ExistingFiles(fs) == {k \in FileKeys : fs[k].st # "absent"}
ScanOrders(fs) ==
    LET S == ExistingFiles(fs)
    IN  {o \in [1..Cardinality(S) -> S] : \A i, j \in 1..Cardinality(S) : o[i] = o[j] => i = j}

(***************************************************************************)
(* The image classifier.  A detection is a box of the YOLO result: its     *)
(* class id, the name model.names gives it, and its confidence, counted in *)
(* hundredths.                                                             *)
(***************************************************************************)
DOG_CLASS == 16     \* a COCO class that is neither person nor container
ClassIds == {PERSON_CLASS, DOG_CLASS, BOTTLE_CLASS, BOWL_CLASS, CUP_CLASS}
Confidences == {70, 95}

\* self.model.names
ModelNames ==
    [c \in ClassIds |-> CASE c = PERSON_CLASS -> "person"
                          [] c = DOG_CLASS -> "dog"
                          [] c = BOTTLE_CLASS -> "bottle"
                          [] c = BOWL_CLASS -> "bowl"
                          [] c = CUP_CLASS -> "cup"]

Detection(c, conf) == [class_id |-> c, class_name |-> ModelNames[c], confidence |-> conf]
Detections == {Detection(c, conf) : c \in ClassIds, conf \in Confidences}
DetectionLists == SeqsUpTo(Detections, MaxDetections)

\* the image files process_image is called for, with the message_id taken
\* from the file name
Images ==
    { [image_path |-> "data/raw/images/chemed/1.jpg", message_id |-> 1],
      [image_path |-> "data/raw/images/lobelia4cosmetics/2.jpg", message_id |-> 2] }

\* any(d["class_id"] == PERSON_CLASS for d in detections)
RECURSIVE HasPerson(_)
HasPerson(dets) ==
    IF dets = <<>> THEN FALSE
    ELSE IF dets[1].class_id = PERSON_CLASS THEN TRUE
    ELSE HasPerson(Tail(dets))

\* a test for products that knows bottles only
RECURSIVE HasProduct_bottle_only(_)
HasProduct_bottle_only(dets) ==
    IF dets = <<>> THEN FALSE
    ELSE IF dets[1].class_id = BOTTLE_CLASS THEN TRUE
    ELSE HasProduct_bottle_only(Tail(dets))

\* any(d["class_id"] in CONTAINER_CLASSES for d in detections)
RECURSIVE HasProduct(_)
HasProduct(dets) ==
    IF dets = <<>> THEN FALSE
    ELSE IF dets[1].class_id \in CONTAINER_CLASSES THEN TRUE
    ELSE HasProduct(Tail(dets))

categorize_image(dets) ==
    LET has_person == HasPerson(dets)
        has_product == HasProduct(dets)
    IN   IF has_person /\ has_product THEN "promotional"
        ELSE IF has_product /\ ~has_person THEN "product_display"
        ELSE IF has_person /\ ~has_product THEN "lifestyle"
        ELSE "other"

\* a maximum that an equal key replaces too: the last of the largest wins
RECURSIVE MaxByConfidence_last(_, _)
MaxByConfidence_last(best, rest) ==
    IF rest = <<>> THEN best
    ELSE MaxByConfidence_last(IF rest[1].confidence >= best.confidence THEN rest[1] ELSE best,
                              Tail(rest))

\* max(detections, key=lambda x: x["confidence"]): the running maximum is
\* replaced only by a strictly larger key
RECURSIVE MaxByConfidence(_, _)
MaxByConfidence(best, rest) ==
    IF rest = <<>> THEN best
    ELSE MaxByConfidence(IF rest[1].confidence > best.confidence THEN rest[1] ELSE best,
                         Tail(rest))

best_detection_of(dets) == MaxByConfidence(dets[1], Tail(dets))

\* process_image for an image file that exists
process_image(image_path, message_id, dets) ==
    IF dets = <<>>
    THEN [op |-> "processed", message_id |-> message_id, image_path |-> image_path,
          detected_class |-> "None", confidence_score |-> 0, image_category |-> "other"]
    ELSE LET best_detection == best_detection_of(dets)
             category == categorize_image(dets)
         IN  [op |-> "processed", message_id |-> message_id, image_path |-> image_path,
              detected_class |-> best_detection.class_name,
              confidence_score |-> best_detection.confidence,
              image_category |-> category, all_detections |-> dets]

\* yolo_detections.csv before save_results has ever written it
AbsentCsv == [st |-> "absent", rows |-> <<>>]

\* the ops of telegram_data_pipeline, by the stage each one runs
Ops == {"scrape_telegram_data", "load_raw_to_postgres",
        "run_dbt_transformations", "run_yolo_enrichment"}

\* no image downloaded, nothing classified, a fresh database, no op started
InitEnrichment ==
    /\ images = {}
    /\ csv = AbsentCsv
    /\ yolo_table = <<>>
    /\ schema_raw = FALSE
    /\ classifies = 0

InitOrchestration ==
    /\ stage = [o \in Ops |-> "pending"]
    /\ runlog = [o \in Ops |-> <<>>]

Init ==
    /\ files = [k \in FileKeys |-> AbsentFile]
    /\ table = <<>>
    /\ log = [op |-> "none"]
    /\ saves = 0
    /\ loads = 0
    /\ detections = <<>>
    /\ result = [op |-> "none"]
    /\ InitEnrichment
    /\ InitOrchestration

\* whether the call about to be made repeats the call made just before
Repeats(channel_name, messages) ==
    /\ log.op = "save"
    /\ log.status = "ok"
    /\ log.channel = channel_name
    /\ log.messages = messages

\* save_messages(messages, channel_name) runs to its end or raises
Save(channel_name, messages) ==
    /\ saves < MaxSaves
    /\ LET r == save_messages(files, messages, channel_name)
       IN  /\ files' = r.files
           /\ log' = [op |-> "save", status |-> r.status, channel |-> channel_name,
                      messages |-> messages, saved |-> r.saved,
                      repeat |-> Repeats(channel_name, messages),
                      first_saved |-> IF Repeats(channel_name, messages)
                                      THEN log.saved ELSE <<>>]
    /\ saves' = saves + 1
    /\ UNCHANGED <<table, loads, detections, result, enrichment, orchestration>>

\* the process dies in save_messages before it opens the file of the i-th
\* date for writing (i = number of dates + 1: after the last file is closed)
SaveCrashBetweenWrites(channel_name, messages, i) ==
    /\ saves < MaxSaves
    /\ i \in 1..(Len(DateKeys(messages)) + 1)
    /\ LET keys == DateKeys(messages)
           r == SaveLoop(files, SubSeq(keys, 1, i - 1), messages, channel_name, <<>>)
       IN  /\ r.status = "ok"
           /\ files' = r.files
           /\ log' = [op |-> "crash", status |-> "killed", channel |-> channel_name,
                      messages |-> messages, saved |-> r.saved, repeat |-> FALSE,
                      first_saved |-> <<>>]
    /\ saves' = saves + 1
    /\ UNCHANGED <<table, loads, detections, result, enrichment, orchestration>>

\* the process dies between open(file_path, 'w'), which truncates the file
\* of the i-th date, and the moment the whole JSON text of json.dump is on disk
SaveCrashDuringWrite(channel_name, messages, i) ==
    /\ saves < MaxSaves
    /\ i \in 1..Len(DateKeys(messages))
    /\ LET keys == DateKeys(messages)
           r == SaveLoop(files, SubSeq(keys, 1, i - 1), messages, channel_name, <<>>)
           file_path == <<keys[i], channel_name>>
       IN  /\ r.status = "ok"
           /\ r.files[file_path].st # "corrupt"
           /\ files' = [r.files EXCEPT ![file_path] = TruncatedFile]
           /\ log' = [op |-> "crash", status |-> "killed", channel |-> channel_name,
                      messages |-> messages, saved |-> r.saved, repeat |-> FALSE,
                      first_saved |-> <<>>]
    /\ saves' = saves + 1
    /\ UNCHANGED <<table, loads, detections, result, enrichment, orchestration>>

\* MESSAGES_DIR is created when the scraper module is imported
MessagesDirExists == saves > 0

\* whether the run about to be made follows a run that went through the files
Reruns == log.op = "load" /\ log.status = "finished"

\* PostgresLoader.run(): connect, create_raw_schema, load_json_files, disconnect
Load(json_files) ==
    /\ loads < MaxLoads
    /\ IF MessagesDirExists
       THEN LET r == load_json_files(files, json_files, table)
            IN  /\ table' = r.table
                /\ log' = [op |-> "load", status |-> "finished", order |-> json_files,
                           errors |-> r.errors,
                           report |-> [total_loaded |-> r.total_loaded],
                           rerun |-> Reruns]
       ELSE /\ table' = table
            /\ log' = [op |-> "load", status |-> "no data directory", order |-> <<>>,
                       errors |-> <<>>, report |-> <<>>, rerun |-> Reruns]
    /\ schema_raw' = TRUE
    /\ loads' = loads + 1
    /\ UNCHANGED <<files, saves, detections, result, images, csv, yolo_table, classifies,
                   orchestration>>

Next ==
    \/ \E ch \in Channels : \E b \in Batches[ch] : Save(ch, b)
    \/ \E ch \in Channels : \E b \in Batches[ch] : \E i \in 1..(Len(b) + 1) :
            SaveCrashBetweenWrites(ch, b, i)
    \/ \E ch \in Channels : \E b \in Batches[ch] : \E i \in 1..Len(b) :
            SaveCrashDuringWrite(ch, b, i)
    \/ \E o \in ScanOrders(files) : Load(o)

Spec == Init /\ [][Next]_vars

(***************************************************************************)
(* Properties of the partitioned record store.                             *)
(***************************************************************************)
\* number of records of a partition file that carry the message_id
CountId(file, id) == Cardinality({i \in DOMAIN file.data : file.data[i].message_id = id})
Occurrences(messages, id) == Cardinality({i \in DOMAIN messages : messages[i].message_id = id})
PartitionOf(msg, channel_name) == <<DateStr(msg.message_date), channel_name>>
StoredAsNew(saved, key, id) ==
    \E l \in DOMAIN saved :
        saved[l].file = key /\ \E j \in DOMAIN saved[l].new : saved[l].new[j].message_id = id

\* a save_messages call returned normally in this step
SaveReturned == saves' = saves + 1 /\ log'.op = "save" /\ log'.status = "ok"

\* C1: when save_messages is called twice in succession with the same
\* channel and the same messages and both calls return, the second call
\* leaves every partition file exactly as the first call left it; and a
\* dated record of the batch whose message_id occurs once in the batch and
\* which the first call stored as new is stored exactly once in its
\* (channel, date) partition after the second call.
C1_DedupIdempotence ==
    [][ (SaveReturned /\ log'.repeat) =>
          /\ files' = files
          /\ \A i \in DOMAIN log'.messages :
                LET msg == log'.messages[i]
                    key == PartitionOf(msg, log'.channel)
                IN  (/\ HasDate(msg)
                     /\ Occurrences(log'.messages, msg.message_id) = 1
                     /\ StoredAsNew(log.saved, key, msg.message_id))
                    => CountId(files'[key], msg.message_id) = 1 ]_vars

\* C1 witness: a repeated call has returned, and a record of its batch that
\* the first call stored as new is stored once.
C1_Witness ==
    /\ log.op = "save" /\ log.status = "ok" /\ log.repeat
    /\ \E i \in DOMAIN log.messages :
          LET msg == log.messages[i]
              key == PartitionOf(msg, log.channel)
          IN  /\ HasDate(msg)
              /\ Occurrences(log.messages, msg.message_id) = 1
              /\ StoredAsNew(log.first_saved, key, msg.message_id)
              /\ CountId(files[key], msg.message_id) = 1

\* C2: after every save_messages call, whatever the batches were (a batch
\* may hold the same message_id more than once), no partition file holds two
\* records with the same message_id.
C2_PartitionUnique ==
    log.op = "save" =>
        \A key \in FileKeys : \A i, j \in DOMAIN files[key].data :
            (/\ files[key].data[i].message_id # NoneId
             /\ files[key].data[i].message_id = files[key].data[j].message_id) => i = j

\* C3: a save_messages call never overwrites: every record stored in a
\* partition before the call is stored at the same place with the same
\* field values after it, also when the batch carries a record with the
\* same message_id and other field values; and when the call returns, every
\* dated record of the batch whose message_id was absent from its partition
\* is stored in that partition.
C3_AppendNeverOverwrites ==
    [][ (saves' = saves + 1 /\ log'.op = "save") =>
          /\ \A key \in FileKeys : \A i \in DOMAIN files[key].data :
                /\ i \in DOMAIN files'[key].data
                /\ files'[key].data[i] = files[key].data[i]
          /\ log'.status = "ok" =>
                \A i \in DOMAIN log'.messages :
                    LET msg == log'.messages[i]
                        key == PartitionOf(msg, log'.channel)
                    IN  (HasDate(msg) /\ CountId(files[key], msg.message_id) = 0)
                        => \E j \in DOMAIN files'[key].data : files'[key].data[j] = msg ]_vars

\* C3 witness: a call has returned whose batch held a record with the
\* message_id of a stored record but other field values, which was not
\* stored, and a record that was stored as new.
C3_Witness ==
    /\ log.op = "save" /\ log.status = "ok"
    /\ \E i \in DOMAIN log.messages :
          LET msg == log.messages[i]
              key == PartitionOf(msg, log.channel)
          IN  /\ HasDate(msg)
              /\ CountId(files[key], msg.message_id) = 1
              /\ \A j \in DOMAIN files[key].data : files[key].data[j] # msg
              /\ ~StoredAsNew(log.saved, key, msg.message_id)
    /\ \E l \in DOMAIN log.saved : log.saved[l].new # <<>>

\* C4: if the process dies at any point of save_messages, every partition
\* file afterwards holds either the complete record list it held before the
\* call or the complete merged list the call would have written; no file is
\* left truncated or partly written.
C4_MergeAtomicUnderCrash ==
    [][ (saves' = saves + 1 /\ log'.op = "crash") =>
          \A key \in FileKeys :
              \/ files'[key] = files[key]
              \/ files'[key] = save_messages(files, log'.messages, log'.channel).files[key] ]_vars

(***************************************************************************)
(* Properties of the relational loader.                                    *)
(***************************************************************************)
\* a loader run went through the partition files in this step
LoadFinished == loads' = loads + 1 /\ log'.op = "load" /\ log'.status = "finished"

\* a partition file that cannot be loaded: it is corrupted, or it holds a
\* malformed record (one without message_id)
Failing(file) ==
    \/ file.st = "corrupt"
    \/ \E i \in DOMAIN file.data : file.data[i].message_id = NoneId

KeysUnique(tbl) == \A i, j \in DOMAIN tbl : SameKey(tbl[i], tbl[j]) => i = j
Range(seq) == {seq[i] : i \in DOMAIN seq}

\* C5: a loader run that follows a loader run, the partition files being
\* unchanged in between, leaves raw.telegram_messages with exactly the rows
\* it had (no row added, removed or changed), with one row per
\* (message_id, channel_name), and reports an error for no file but those
\* the first run reported; with no failing file there is no error at all.
C5_LoadIdempotence ==
    [][ (LoadFinished /\ log.op = "load" /\ log.status = "finished") =>
          /\ table' = table
          /\ KeysUnique(table')
          /\ Range(log'.errors) = Range(log.errors)
          /\ (\A key \in FileKeys : ~Failing(files[key])) => log'.errors = <<>> ]_vars

\* C5 witness: a second run has finished on a store whose records the first
\* run had loaded.
C5_Witness ==
    /\ log.op = "load" /\ log.status = "finished" /\ log.rerun
    /\ log.report.total_loaded > 0
    /\ table # <<>>
    /\ \A key \in FileKeys : ~Failing(files[key])

\* C6: a row of raw.telegram_messages is never altered by a loader run: it
\* keeps every field value also when the run loads a record with the same
\* (message_id, channel_name) and other field values.
C6_FirstWriteWins ==
    [][ LoadFinished =>
          \A i \in DOMAIN table : i \in DOMAIN table' /\ table'[i] = table[i] ]_vars

\* C6 witness: a run that found the row in the table has loaded a partition
\* holding a record with the key of the row and other field values.
C6_Witness ==
    /\ log.op = "load" /\ log.status = "finished" /\ log.rerun
    /\ \E key \in FileKeys : \E i \in DOMAIN files[key].data : \E j \in DOMAIN table :
          /\ ~Failing(files[key])
          /\ SameKey(table[j], InsertRow(files[key].data[i]))
          /\ table[j] # InsertRow(files[key].data[i])

\* C7: a loader run isolates the failure of a partition: whatever the place
\* of a failing partition in the scan order, the run logs one error for it
\* and adds no row from it, while every record of every other partition has
\* its row in raw.telegram_messages when the run ends.
C7_PartialFailureIsolation ==
    [][ LoadFinished =>
          /\ \A key \in ExistingFiles(files) :
                IF Failing(files[key])
                THEN Cardinality({e \in DOMAIN log'.errors : log'.errors[e] = key}) = 1
                ELSE /\ key \notin Range(log'.errors)
                     /\ \A i \in DOMAIN files[key].data :
                           \E j \in DOMAIN table' :
                               SameKey(table'[j], InsertRow(files[key].data[i]))
          /\ \A j \in DOMAIN table' :
                j \notin DOMAIN table =>
                    \E key \in ExistingFiles(files) : \E i \in DOMAIN files[key].data :
                        ~Failing(files[key]) /\ table'[j] = InsertRow(files[key].data[i]) ]_vars

\* C7 witness: a run has scanned a failing partition first, one that holds a
\* well-formed record besides the malformed one; the record has no row, the
\* records of the partition scanned after it have theirs.
C7_Witness ==
    /\ log.op = "load" /\ log.status = "finished"
    /\ Len(log.order) >= 2
    /\ log.errors = <<log.order[1]>>
    /\ \E i \in DOMAIN files[log.order[1]].data :
          /\ files[log.order[1]].data[i].message_id # NoneId
          /\ \A j \in DOMAIN table : ~SameKey(table[j], InsertRow(files[log.order[1]].data[i]))
    /\ log.report.total_loaded > 0
    /\ \A i \in DOMAIN files[log.order[2]].data :
          \E j \in DOMAIN table : table[j] = InsertRow(files[log.order[2]].data[i])

RECURSIVE CommittedRecords(_, _)
CommittedRecords(fs, keys) ==
    IF keys = <<>> THEN 0
    ELSE (IF Failing(fs[keys[1]]) THEN 0 ELSE Len(fs[keys[1]].data))
         + CommittedRecords(fs, Tail(keys))

\* C8: when a loader run ends, its report holds the number of records
\* loaded, counted over the partitions that committed, and the number of
\* partitions that failed, which is the number of partitions whose load
\* raised an error.
C8_LoaderReport ==
    (log.op = "load" /\ log.status = "finished") =>
        /\ "total_loaded" \in DOMAIN log.report
        /\ log.report.total_loaded = CommittedRecords(files, log.order)
        /\ "failed" \in DOMAIN log.report
        /\ log.report.failed = Cardinality({key \in ExistingFiles(files) : Failing(files[key])})

(***************************************************************************)
(* The classifier on one image: detect_objects has returned detections     *)
(* (the empty list also when inference raised), process_image builds the   *)
(* result.                                                                 *)
(***************************************************************************)
InitClassifier ==
    /\ files = [k \in FileKeys |-> AbsentFile]
    /\ table = <<>>
    /\ log = [op |-> "none"]
    /\ saves = 0
    /\ loads = 0
    /\ detections \in DetectionLists
    /\ result = [op |-> "none"]
    /\ InitEnrichment
    /\ InitOrchestration

ProcessImage(image) ==
    /\ result.op = "none"
    /\ result' = process_image(image.image_path, image.message_id, detections)
    /\ UNCHANGED <<files, table, log, saves, loads, detections, enrichment, orchestration>>

\* categorize_image called on the detection list
CategorizeImage ==
    /\ result.op = "none"
    /\ result' = [op |-> "categorized", image_category |-> categorize_image(detections)]
    /\ UNCHANGED <<files, table, log, saves, loads, detections, enrichment, orchestration>>

NextClassifier ==
    \/ \E image \in Images : ProcessImage(image)
    \/ CategorizeImage

SpecClassifier == InitClassifier /\ [][NextClassifier]_vars

(***************************************************************************)
(* Properties of the classifier.                                           *)
(***************************************************************************)
Categories == {"promotional", "product_display", "lifestyle", "other"}

\* the category the policy gives to a set of class ids
PolicyCategory(ids) ==
    LET person == PERSON_CLASS \in ids
        product == ids \cap {BOTTLE_CLASS, BOWL_CLASS, CUP_CLASS} # {}
    IN  CASE person /\ product -> "promotional"
          [] ~person /\ product -> "product_display"
          [] person /\ ~product -> "lifestyle"
          [] OTHER -> "other"

ClassIdsOf(dets) == {dets[i].class_id : i \in DOMAIN dets}

\* C9: the category of a detection list is the one the policy gives to the
\* set of its class ids (so it depends on neither order nor multiplicity):
\* promotional for person and product, product_display for product only,
\* lifestyle for person only, other for neither; it is one of the four
\* categories, as returned by categorize_image and as reported by
\* process_image.
C9_ClassificationPolicy ==
    result.op \in {"categorized", "processed"} =>
        /\ result.image_category = PolicyCategory(ClassIdsOf(detections))
        /\ result.image_category \in Categories

\* C9 witness: categorize_image was called on a list that starts with a
\* detection that is neither person nor product and holds a product before
\* the person, and returned promotional.
C9_Witness ==
    /\ result.op = "categorized"
    /\ Len(detections) = 3
    /\ detections[1].class_id = DOG_CLASS
    /\ detections[2].class_id = BOWL_CLASS
    /\ detections[3].class_id = PERSON_CLASS
    /\ result.image_category = "promotional"

\* C10: for a non-empty detection list process_image reports the class name
\* and the confidence of the first detection among those of maximum
\* confidence, and the category of the whole list.
C10_BestDetection ==
    (result.op = "processed" /\ detections # <<>>) =>
        \E i \in DOMAIN detections :
            /\ \A j \in DOMAIN detections : detections[j].confidence <= detections[i].confidence
            /\ \A j \in 1..(i - 1) : detections[j].confidence < detections[i].confidence
            /\ result.detected_class = ModelNames[detections[i].class_id]
            /\ result.confidence_score = detections[i].confidence
            /\ result.image_category = PolicyCategory(ClassIdsOf(detections))

\* C10 witness: an image was processed in which two detections of different
\* classes share the maximum confidence after a weaker detection; the first
\* of the two is reported, and the category is not the one the reported
\* detection alone would get.
C10_Witness ==
    /\ result.op = "processed"
    /\ Len(detections) = 3
    /\ detections[1].confidence < detections[2].confidence
    /\ detections[2].confidence = detections[3].confidence
    /\ detections[2].class_id # detections[3].class_id
    /\ result.detected_class = detections[2].class_name
    /\ result.image_category # PolicyCategory({detections[2].class_id})

(***************************************************************************)
(* The classifier's batch.  yolo_detect.py main() loads the model, walks   *)
(* the image files under data/raw/images, writes the results to            *)
(* yolo_detections.csv and loads the CSV into raw.yolo_detections.         *)
(***************************************************************************)
MaxClassifies == 2

ImageFile(channel, stem, suffix) == [channel |-> channel, stem |-> stem, suffix |-> suffix]

ImgChemed1 == ImageFile("chemed", "1", "jpg")
ImgLobelia1 == ImageFile("lobelia4cosmetics", "1", "jpg")
ImgBanner == ImageFile("chemed", "banner", "jpg")
ImageFiles == {ImgChemed1, ImgLobelia1, ImgBanner}

\* str(image_path)
PathOf(f) == "data/raw/images/" \o f.channel \o "/" \o f.stem \o "." \o f.suffix

\* int(image_path.stem) for the stems of ImageFiles; a stem outside the
\* domain makes int() raise ValueError
StemValues == ("1" :> 1) @@ ("2" :> 2)
StemParses(stem) == stem \in DOMAIN StemValues

\* what the model finds in each image when inference runs to its end
Scene(f) ==
    CASE f = ImgChemed1 -> <<Detection(PERSON_CLASS, 70), Detection(CUP_CLASS, 95)>>
      [] f = ImgLobelia1 -> <<>>
      [] OTHER -> <<Detection(DOG_CLASS, 70)>>

\* detect_objects: the detections of the image, or the empty list when
\* inference raised (the files of raises) and the exception was logged
detect_objects(f, raises) == IF f \in raises THEN <<>> ELSE Scene(f)

\* a walk that ends at the first file name it cannot parse
RECURSIVE ProcessLoop_abort(_, _, _)
ProcessLoop_abort(image_files, raises, results) ==
    IF image_files = <<>> THEN results
    ELSE LET image_path == image_files[1]
         IN  IF ~StemParses(image_path.stem) THEN results
             ELSE ProcessLoop_abort(Tail(image_files), raises,
                      Append(results, process_image(PathOf(image_path),
                                                    StemValues[image_path.stem],
                                                    detect_objects(image_path, raises))))

\* the loop of process_all_images over image_files
RECURSIVE ProcessLoop(_, _, _)
ProcessLoop(image_files, raises, results) ==
    IF image_files = <<>> THEN results
    ELSE LET image_path == image_files[1]
         IN  IF ~StemParses(image_path.stem)
             THEN ProcessLoop(Tail(image_files), raises, results)
             ELSE ProcessLoop(Tail(image_files), raises,
                      Append(results, process_image(PathOf(image_path),
                                                    StemValues[image_path.stem],
                                                    detect_objects(image_path, raises))))

process_all_images(image_files, raises) == ProcessLoop(image_files, raises, <<>>)

\* the orders in which a directory walk can yield the files of S
Orders(S) ==
    {o \in [1..Cardinality(S) -> S] : \A i, j \in 1..Cardinality(S) : i # j => o[i] # o[j]}

\* list(IMAGES_DIR.rglob("*.jpg")) + list(IMAGES_DIR.rglob("*.png"))
GlobOrders(imgs) ==
    {jpg \o png : jpg \in Orders({f \in imgs : f.suffix = "jpg"}),
                  png \in Orders({f \in imgs : f.suffix = "png"})}

\* the row csv.DictWriter writes for a result: the five named fields, None
\* written as the empty text
CsvRow(r) ==
    [message_id |-> r.message_id, image_path |-> r.image_path,
     detected_class |-> IF r.detected_class = "None" THEN "" ELSE r.detected_class,
     confidence_score |-> r.confidence_score, image_category |-> r.image_category]

\* save_results: nothing is written for an empty result list
save_results(file, results) ==
    IF results = <<>> THEN file
    ELSE [st |-> "written", rows |-> [i \in DOMAIN results |-> CsvRow(results[i])]]

\* the tuple load_yolo_results_to_postgres builds from a CSV row: the empty
\* text of detected_class becomes NULL
DetectionRow(row) ==
    [message_id |-> row.message_id, image_path |-> row.image_path,
     detected_class |-> IF row.detected_class = "" THEN "NULL" ELSE row.detected_class,
     confidence_score |-> row.confidence_score, image_category |-> row.image_category]

\* load_yolo_results_to_postgres(csv_path): connect, CREATE TABLE IF NOT
\* EXISTS raw.yolo_detections, INSERT ... ON CONFLICT DO NOTHING into a
\* table whose only key is the serial detection_id; every exception is
\* caught and logged
load_yolo_results_to_postgres(file, tbl, schema, db_up) ==
    IF ~db_up THEN [table |-> tbl, status |-> "error logged", error |-> "connect"]
    ELSE IF ~schema THEN [table |-> tbl, status |-> "error logged", error |-> "schema"]
    ELSE [table |-> tbl \o [i \in DOMAIN file.rows |-> DetectionRow(file.rows[i])],
          status |-> "loaded", error |-> "none"]

\* a file appears under data/raw/images
AddImage(f) ==
    /\ f \notin images
    /\ images' = images \cup {f}
    /\ UNCHANGED <<files, table, log, saves, loads, detections, result,
                   csv, yolo_table, schema_raw, classifies, orchestration>>

\* the files under data/raw/images are removed
ClearImages ==
    /\ images # {}
    /\ images' = {}
    /\ UNCHANGED <<files, table, log, saves, loads, detections, result,
                   csv, yolo_table, schema_raw, classifies, orchestration>>

\* main() of yolo_detect.py: YOLODetector() raises when the model cannot be
\* loaded and the process exits with an error; otherwise process_all_images,
\* save_results and, when the CSV exists, load_yolo_results_to_postgres
yolo_main(image_files, raises, model_loads, db_up, file, tbl, schema) ==
    IF ~model_loads
    THEN [exit |-> 1, csv |-> file, table |-> tbl, results |-> <<>>, loader |-> "not called"]
    ELSE LET results == process_all_images(image_files, raises)
             written == save_results(file, results)
             r == IF written.st = "absent"
                  THEN [table |-> tbl, status |-> "not called"]
                  ELSE load_yolo_results_to_postgres(written, tbl, schema, db_up)
         IN  [exit |-> 0, csv |-> written, table |-> r.table, results |-> results,
              loader |-> r.status]

\* one run of yolo_detect.py
ClassifierMain(image_files, raises, model_loads, db_up) ==
    /\ classifies < MaxClassifies
    /\ classifies' = classifies + 1
    /\ LET r == yolo_main(image_files, raises, model_loads, db_up,
                          csv, yolo_table, schema_raw)
       IN  /\ csv' = r.csv
           /\ yolo_table' = r.table
           /\ log' = [op |-> "classify",
                      status |-> IF r.exit = 0 THEN "finished" ELSE "raised",
                      image_files |-> image_files, raises |-> raises,
                      results |-> r.results, loader |-> r.loader,
                      db_up |-> db_up, schema |-> schema_raw, before |-> yolo_table]
    /\ UNCHANGED <<files, table, saves, loads, detections, result,
                   images, schema_raw, orchestration>>

NextEnrichment ==
    \/ \E f \in ImageFiles : AddImage(f)
    \/ ClearImages
    \/ \E image_files \in GlobOrders(images) :
       \E raises \in {{}} \cup {{f} : f \in images} :
       \E model_loads, db_up \in BOOLEAN :
            ClassifierMain(image_files, raises, model_loads, db_up)
    \/ \E o \in ScanOrders(files) : Load(o)

SpecEnrichment == Init /\ [][NextEnrichment]_vars

\* the classifier went through the image files and returned its results
Classified == log.op = "classify" /\ log.status = "finished"

\* indexes of the results made for image file f
ResultsFor(f) == {i \in DOMAIN log.results : log.results[i].image_path = PathOf(f)}

\* C11: process_all_images returns exactly one Detection for every image
\* file whose stem parses as a decimal record_id, carrying that id, and none
\* for a file whose stem does not parse; an image in which zero objects
\* were found has detected_class null, confidence 0.0 and category other.
C11_OneDetectionPerImage ==
    Classified =>
        /\ \A i \in DOMAIN log.image_files :
            LET f == log.image_files[i]
            IN  IF StemParses(f.stem)
                THEN /\ Cardinality(ResultsFor(f)) = 1
                     /\ \A k \in ResultsFor(f) :
                            /\ log.results[k].message_id = StemValues[f.stem]
                            /\ (Scene(f) = <<>> /\ f \notin log.raises) =>
                                  /\ log.results[k].detected_class = "None"
                                  /\ log.results[k].confidence_score = 0
                                  /\ log.results[k].image_category = "other"
                ELSE ResultsFor(f) = {}
        /\ Len(log.results) =
              Cardinality({i \in DOMAIN log.image_files : StemParses(log.image_files[i].stem)})

\* a walk met the unparseable name before a parseable one and an image
\* without objects, and returned a result for each parseable file
C11_Witness ==
    /\ Classified
    /\ log.raises = {}
    /\ Len(log.image_files) >= 3
    /\ log.image_files[1] = ImgBanner
    /\ \E i \in DOMAIN log.image_files : log.image_files[i] = ImgLobelia1
    /\ Len(log.results) = Len(log.image_files) - 1

\* C12: when inference fails for one image, process_all_images emits no
\* Detection for that image, and every other image with a parseable name
\* still yields its Detection.
C12_FailedImageSkipped ==
    Classified =>
        \A i \in DOMAIN log.image_files :
            LET f == log.image_files[i]
            IN  /\ f \in log.raises => ResultsFor(f) = {}
                /\ (f \notin log.raises /\ StemParses(f.stem)) =>
                       Cardinality(ResultsFor(f)) = 1

\* C13: however many times the classification loader has run,
\* raw.yolo_detections holds at most one row for each pair of record_id and
\* media_ref, so a run repeated on the same output adds no row.
C13_OneRowPerDetection ==
    \A i, j \in DOMAIN yolo_table :
        (/\ yolo_table[i].message_id = yolo_table[j].message_id
         /\ yolo_table[i].image_path = yolo_table[j].image_path) => i = j

\* C14: invoked with a reachable database on which the relational loader
\* has never run, the classification loader completes without error and
\* every Detection row of the CSV is stored in raw.yolo_detections.
C14_LoaderIndependent ==
    (Classified /\ loads = 0 /\ log.db_up /\ log.loader # "not called") =>
        /\ log.loader = "loaded"
        /\ \A i \in DOMAIN csv.rows :
              \E k \in DOMAIN yolo_table : yolo_table[k] = DetectionRow(csv.rows[i])

(***************************************************************************)
(* The collector.  scrape_all_channels connects, then for each configured  *)
(* channel calls scrape_channel, which catches what the scraping raises    *)
(* and returns the messages gathered before it, and save_messages.         *)
(***************************************************************************)
\* what iter_messages yields for each channel, as the message_data built
\* from it
Feeds ==
    [ch \in Channels |->
        IF ch = TELEGRAM_CHANNELS[1]
        THEN { <<Msg1, Msg2>>, <<MsgNoDate, Msg1>>, <<Msg1Later>> }
        ELSE { <<MsgOther>>, <<>> }]

\* scrape_channel when get_entity or the iteration raises after k messages
\* were appended (k beyond the feed: nothing raises)
scrape_channel(channel_name, feed, k) ==
    IF k > Len(feed)
    THEN [channel |-> channel_name, messages |-> feed, raised |-> FALSE]
    ELSE [channel |-> channel_name, messages |-> SubSeq(feed, 1, k), raised |-> TRUE]

\* a loop that lets the exception of a channel end the run
RECURSIVE ScrapeLoop_abort(_, _, _, _, _)
ScrapeLoop_abort(fs, channels, feeds, fails, scraped) ==
    IF channels = <<>> THEN [files |-> fs, status |-> "finished", scraped |-> scraped]
    ELSE LET channel == channels[1]
             r == scrape_channel(channel, feeds[channel], fails[channel])
             s == save_messages(fs, r.messages, channel)
         IN  IF r.raised THEN [files |-> fs, status |-> "finished", scraped |-> scraped]
             ELSE IF s.status = "raised"
             THEN [files |-> s.files, status |-> "raised", scraped |-> Append(scraped, r)]
             ELSE ScrapeLoop_abort(s.files, Tail(channels), feeds, fails, Append(scraped, r))

\* for channel in TELEGRAM_CHANNELS: scrape_channel, save_messages; what
\* save_messages raises leaves the loop
RECURSIVE ScrapeLoop(_, _, _, _, _)
ScrapeLoop(fs, channels, feeds, fails, scraped) ==
    IF channels = <<>> THEN [files |-> fs, status |-> "finished", scraped |-> scraped]
    ELSE LET channel == channels[1]
             r == scrape_channel(channel, feeds[channel], fails[channel])
             s == save_messages(fs, r.messages, channel)
         IN  IF s.status = "raised"
             THEN [files |-> s.files, status |-> "raised", scraped |-> Append(scraped, r)]
             ELSE ScrapeLoop(s.files, Tail(channels), feeds, fails, Append(scraped, r))

\* scrape_all_channels: connect() raises before the loop when the client
\* cannot be started
scrape_all_channels(fs, feeds, fails, connects) ==
    IF ~connects THEN [files |-> fs, status |-> "raised", scraped |-> <<>>]
    ELSE ScrapeLoop(fs, TELEGRAM_CHANNELS, feeds, fails, <<>>)

\* one run of the collector
CollectorRun(feeds, fails, connects) ==
    /\ saves < MaxSaves
    /\ LET r == scrape_all_channels(files, feeds, fails, connects)
       IN  /\ files' = r.files
           /\ log' = [op |-> "collect", status |-> r.status, scraped |-> r.scraped]
           /\ saves' = saves + Len(r.scraped)
    /\ UNCHANGED <<table, loads, detections, result, enrichment, orchestration>>

\* the choices of feed and of point of failure for every channel
FeedChoices == {feeds \in [Channels -> UNION {Feeds[ch] : ch \in Channels}] :
                    \A ch \in Channels : feeds[ch] \in Feeds[ch]}
FailChoices(feeds) == {fails \in [Channels -> 0..3] :
                          \A ch \in Channels : fails[ch] <= Len(feeds[ch]) + 1}

NextCollector ==
    \/ \E feeds \in FeedChoices : \E fails \in FailChoices(feeds) : \E connects \in BOOLEAN :
            CollectorRun(feeds, fails, connects)
    \/ \E ch \in Channels : \E b \in Batches[ch] : \E i \in 1..Len(b) :
            SaveCrashDuringWrite(ch, b, i)

SpecCollector == Init /\ [][NextCollector]_vars

\* the collector ran to the end of scrape_all_channels
Collected == log.op = "collect" /\ log.status = "finished"

\* C20: when the collector finishes, every configured channel has been
\* scraped and handed to save_messages, whichever channels raised while
\* being scraped, and every dated record gathered from any channel is in
\* the partition of its date and channel.
C20_ChannelFailureIsolated ==
    Collected =>
        /\ Len(log.scraped) = Len(TELEGRAM_CHANNELS)
        /\ \A i \in DOMAIN log.scraped :
              /\ log.scraped[i].channel = TELEGRAM_CHANNELS[i]
              /\ \A k \in DOMAIN log.scraped[i].messages :
                    LET msg == log.scraped[i].messages[k]
                    IN  HasDate(msg) =>
                          /\ files[PartitionOf(msg, msg.channel_name)].st = "ok"
                          /\ CountId(files[PartitionOf(msg, msg.channel_name)],
                                     msg.message_id) >= 1

\* the first channel raised after one message, the second was scraped and
\* stored all the same, and the message of the first is stored too
C20_Witness ==
    /\ Collected
    /\ log.scraped[1].raised
    /\ Len(log.scraped[1].messages) = 1
    /\ ~log.scraped[2].raised
    /\ log.scraped[2].messages = <<MsgOther>>
    /\ CountId(files[PartitionOf(MsgOther, TELEGRAM_CHANNELS[2])], 1) = 1

(***************************************************************************)
(* The orchestrator.  telegram_data_pipeline is a Dagster job of four ops; *)
(* each op runs its commands as subordinate processes with check=True and  *)
(* raises when one of them exits with an error.  The executor starts an op *)
(* once the ops whose outputs it takes have succeeded, runs ops that wait  *)
(* for nothing side by side, and marks the run failed when an op failed.   *)
(***************************************************************************)
Scrape == "scrape_telegram_data"
LoadRaw == "load_raw_to_postgres"
Dbt == "run_dbt_transformations"
Yolo == "run_yolo_enrichment"

\* the ops whose outputs each op of the job body takes as inputs: every op
\* is invoked without arguments
Upstream == [o \in Ops |-> {}]

\* an op that returns its status message whatever its commands did
OpResult_swallow(exits) == "succeeded"

\* subprocess.run(check=True) raises CalledProcessError on a non-zero exit,
\* and the op raises in turn
OpResult(exits) ==
    IF \E i \in DOMAIN exits : exits[i] # 0 THEN "failed" ELSE "succeeded"

\* the exit codes of the commands an op runs one after the other: no
\* command runs after one that failed
CommandExits(n) ==
    {[i \in 1..n |-> 0]} \cup {[i \in 1..k |-> IF i = k THEN 1 ELSE 0] : k \in 1..n}

\* the status of the run
JobStatus ==
    IF \E o \in Ops : stage[o] \in {"pending", "running"} THEN "running"
    ELSE IF \E o \in Ops : stage[o] = "failed" THEN "failed"
    ELSE "succeeded"

\* main() of load_to_postgres.py: connect() raises when the database cannot
\* be reached, otherwise create_raw_schema and load_json_files
loader_main(fs, json_files, tbl, dir_exists, db_up) ==
    IF ~db_up THEN [exit |-> 1, table |-> tbl]
    ELSE IF ~dir_exists THEN [exit |-> 0, table |-> tbl]
    ELSE [exit |-> 0, table |-> load_json_files(fs, json_files, tbl).table]

\* the executor starts an op
StartOp(o) ==
    /\ stage[o] = "pending"
    /\ \A u \in Upstream[o] : stage[u] = "succeeded"
    /\ stage' = [stage EXCEPT ![o] = "running"]
    /\ UNCHANGED <<files, table, log, saves, loads, detections, result, enrichment, runlog>>

\* the files download_image can write: <channel>/<message id>.jpg
Downloads == {f \in ImageFiles : StemParses(f.stem)}

\* the scraper downloads an image while its op runs
Download(f) ==
    /\ stage[Scrape] = "running"
    /\ AddImage(f)

\* scrape_telegram_data ends: python src/scraper.py has exited
FinishScrape(feeds, fails, connects) ==
    /\ stage[Scrape] = "running"
    /\ LET r == scrape_all_channels(files, feeds, fails, connects)
           exits == <<IF r.status = "raised" THEN 1 ELSE 0>>
       IN  /\ files' = r.files
           /\ saves' = saves + Len(r.scraped)
           /\ stage' = [stage EXCEPT ![Scrape] = OpResult(exits)]
           /\ runlog' = [runlog EXCEPT ![Scrape] = [exits |-> exits]]
    /\ UNCHANGED <<table, log, loads, detections, result, enrichment>>

\* load_raw_to_postgres ends: python src/load_to_postgres.py has exited
FinishLoad(json_files, db_up) ==
    /\ stage[LoadRaw] = "running"
    /\ LET r == loader_main(files, json_files, table, stage[Scrape] # "pending", db_up)
           exits == <<r.exit>>
       IN  /\ table' = r.table
           /\ stage' = [stage EXCEPT ![LoadRaw] = OpResult(exits)]
           /\ runlog' = [runlog EXCEPT ![LoadRaw] =
                            [exits |-> exits, db_up |-> db_up,
                             loaded |-> Len(r.table) - Len(table)]]
    /\ schema_raw' = (schema_raw \/ db_up)
    /\ loads' = loads + 1
    /\ UNCHANGED <<files, log, saves, detections, result, images, csv, yolo_table,
                   classifies>>

\* run_dbt_transformations ends: dbt deps, dbt run and dbt test have exited,
\* or the first of them that failed
FinishDbt(exits) ==
    /\ stage[Dbt] = "running"
    /\ stage' = [stage EXCEPT ![Dbt] = OpResult(exits)]
    /\ runlog' = [runlog EXCEPT ![Dbt] = [exits |-> exits]]
    /\ UNCHANGED <<files, table, log, saves, loads, detections, result, enrichment>>

\* run_yolo_enrichment ends: python src/yolo_detect.py has exited and, when
\* it exited with 0, dbt run --select fct_image_detections
FinishYolo(image_files, raises, model_loads, db_up, dbt_exit) ==
    /\ stage[Yolo] = "running"
    /\ LET r == yolo_main(image_files, raises, model_loads, db_up,
                          csv, yolo_table, schema_raw)
           exits == IF r.exit # 0 THEN <<r.exit>> ELSE <<r.exit, dbt_exit>>
       IN  /\ csv' = r.csv
           /\ yolo_table' = r.table
           /\ stage' = [stage EXCEPT ![Yolo] = OpResult(exits)]
           /\ runlog' = [runlog EXCEPT ![Yolo] =
                            [exits |-> exits, db_up |-> db_up, loader |-> r.loader,
                             loaded |-> Len(r.table) - Len(yolo_table)]]
    /\ classifies' = classifies + 1
    /\ UNCHANGED <<files, table, log, saves, loads, detections, result, images, schema_raw>>

NextPipeline ==
    \/ \E o \in Ops : StartOp(o)
    \/ \E f \in Downloads : Download(f)
    \/ \E feeds \in FeedChoices : \E fails \in FailChoices(feeds) : \E connects \in BOOLEAN :
            FinishScrape(feeds, fails, connects)
    \/ \E o \in ScanOrders(files) : \E db_up \in BOOLEAN : FinishLoad(o, db_up)
    \/ \E exits \in CommandExits(3) : FinishDbt(exits)
    \/ \E image_files \in GlobOrders(images) :
       \E raises \in {{}} \cup {{f} : f \in images} :
       \E model_loads, db_up \in BOOLEAN : \E dbt_exit \in {0, 1} :
            FinishYolo(image_files, raises, model_loads, db_up, dbt_exit)

SpecPipeline == Init /\ [][NextPipeline]_vars

\* the stages each stage depends on: Load on Collect, Transform on Load,
\* Classify on Collect
DependsOn ==
    [o \in Ops |-> CASE o = Scrape -> {}
                     [] o = LoadRaw -> {Scrape}
                     [] o = Dbt -> {LoadRaw}
                     [] o = Yolo -> {Scrape}]

\* C15: no stage of a run has left pending before every stage it depends
\* on had succeeded: Load after Collect, Transform after Load, Classify
\* after Collect.
C15_DependencyOrder ==
    \A o \in Ops : stage[o] # "pending" => \A d \in DependsOn[o] : stage[d] = "succeeded"

\* C16: at most one of the four stages is running at a time.
C16_OneStageRunning ==
    Cardinality({o \in Ops : stage[o] = "running"}) <= 1

\* C17: once a stage of the run has failed, no stage that is still pending
\* starts running.
C17_FailureHaltsJob ==
    [][(\E o \in Ops : stage[o] = "failed") =>
           \A p \in Ops : stage[p] = "pending" => stage'[p] = "pending"]_vars

\* an op ended in this step and one of its commands had exited with an error
EndsWithError(o) ==
    /\ stage[o] = "running"
    /\ stage'[o] # "running"
    /\ \E i \in DOMAIN runlog'[o].exits : runlog'[o].exits[i] # 0

\* what a stage commits: partitions and images, rows of
\* raw.telegram_messages, the CSV and the rows of raw.yolo_detections
Committed(o) ==
    CASE o = Scrape -> <<files, images>>
      [] o = LoadRaw -> <<table>>
      [] o = Yolo -> <<csv, yolo_table>>
      [] OTHER -> <<>>

\* C18: when a command of a stage exits with an error the stage ends
\* failed and stays failed, so the job cannot end succeeded, while every
\* stage that had succeeded stays succeeded and what it committed is left
\* as it was.
C18_FailureNotRetroactive ==
    [][/\ \A o \in Ops : stage[o] = "failed" => stage'[o] = "failed"
       /\ \A o \in Ops :
            EndsWithError(o) =>
                /\ stage'[o] = "failed"
                /\ JobStatus' # "succeeded"
                /\ \A d \in Ops : stage[d] = "succeeded" =>
                       /\ stage'[d] = "succeeded"
                       /\ Committed(d)' = Committed(d)]_vars

\* Collect and Load had succeeded and committed partitions and rows, then
\* Classify failed and the job ended failed
C18_Witness ==
    /\ stage[Scrape] = "succeeded"
    /\ stage[LoadRaw] = "succeeded"
    /\ table # <<>>
    /\ stage[Yolo] = "failed"
    /\ stage[Dbt] = "succeeded"
    /\ JobStatus = "failed"

\* C19: a Load stage whose loader could not connect to the database has
\* ended failed, and so has a Classify stage whose classification loader
\* could not connect; neither has succeeded with nothing loaded.
C19_UnreachableDatabaseFails ==
    /\ (stage[LoadRaw] \in {"succeeded", "failed"} /\ ~runlog[LoadRaw].db_up) =>
           stage[LoadRaw] = "failed"
    /\ (/\ stage[Yolo] \in {"succeeded", "failed"}
        /\ runlog[Yolo].loader # "not called"
        /\ ~runlog[Yolo].db_up) =>
           stage[Yolo] = "failed"

(***************************************************************************)
(* Records lost and failures passed on by the collector.                   *)
(***************************************************************************)
\* the partitions of a channel
PartitionsOf(channel_name) == {key \in FileKeys : key[2] = channel_name}

\* C24: after save_messages has returned, every record of the batch it was
\* given is stored in some partition of the channel, the records whose
\* message_date is null included.
C24_NoRecordLost ==
    (log.op = "save" /\ log.status = "ok") =>
        \A k \in DOMAIN log.messages :
            \E key \in PartitionsOf(log.channel) :
                CountId(files[key], log.messages[k].message_id) >= 1

\* C23: a partition that cannot be read or parsed stops neither the other
\* partitions nor the later channels: whenever the collector ran with a
\* connected client, every configured channel has been scraped and handed
\* to save_messages, and every dated record gathered is stored unless its
\* own partition is the unreadable one.
C23_PersistenceFailureIsolated ==
    (log.op = "collect" /\ log.scraped # <<>>) =>
        /\ Len(log.scraped) = Len(TELEGRAM_CHANNELS)
        /\ \A i \in DOMAIN log.scraped :
              \A k \in DOMAIN log.scraped[i].messages :
                  LET msg == log.scraped[i].messages[k]
                      file == files[PartitionOf(msg, msg.channel_name)]
                  IN  (HasDate(msg) /\ file.st # "corrupt") =>
                          CountId(file, msg.message_id) >= 1

\* C26: the rows a run of the classifier hands to the classification
\* loader are the results process_all_images returned in that run, and no
\* others: none left in the CSV by an earlier run.
C26_LoadsOwnOutput ==
    (Classified /\ log.loader # "not called") =>
        csv.rows = [i \in DOMAIN log.results |-> CsvRow(log.results[i])]

(***************************************************************************)
(* Media.  scrape_channel builds message_data from each Telegram message   *)
(* it keeps; download_image writes data/raw/images/<channel>/<id>.jpg for  *)
(* a photo or an image document and returns the path relative to data/,    *)
(* or None when there is nothing to download or the download raised.       *)
(***************************************************************************)
\* a message as Telethon hands it over
TgMessage(id, text, media, date) ==
    [id |-> id, text |-> text, media |-> media, date |-> date, views |-> 0, forwards |-> 0]

TgPhoto1 == TgMessage(1, "", "photo", IsoDate("2024-01-01", "10:00:00"))
TgText2 == TgMessage(2, "paracetamol 500mg", "none", IsoDate("2024-01-02", "09:00:00"))
TgImageDoc2 == TgMessage(2, "", "image_document", IsoDate("2024-01-02", "09:00:00"))
TgVideo2 == TgMessage(2, "", "other_document", IsoDate("2024-01-02", "09:00:00"))
TgEmpty3 == TgMessage(3, "", "none", IsoDate("2024-01-02", "12:00:00"))

\* what iter_messages yields for each channel
TgFeeds ==
    [ch \in Channels |->
        IF ch = TELEGRAM_CHANNELS[1]
        THEN { <<TgPhoto1, TgText2>>, <<TgPhoto1, TgEmpty3, TgImageDoc2>>, <<TgVideo2>> }
        ELSE { <<TgPhoto1>>, <<>> }]

\* f"{message.id}" for the ids of the feeds
IdText == (1 :> "1") @@ (2 :> "2") @@ (3 :> "3")

\* str(image_path.relative_to(DATA_DIR))
RelativePathOf(f) == "raw/images/" \o f.channel \o "/" \o f.stem \o "." \o f.suffix

\* MessageMediaPhoto, or MessageMediaDocument with an image/ mime type
IsImage(message) == message.media \in {"photo", "image_document"}

\* download_image: failed holds the <<channel, id>> whose download raises
download_image(message, channel_name, failed) ==
    IF message.media = "none" THEN [image_path |-> "None", written |-> {}]
    ELSE IF IsImage(message) /\ <<channel_name, message.id>> \notin failed
    THEN LET image_path == ImageFile(channel_name, IdText[message.id], "jpg")
         IN  [image_path |-> RelativePathOf(image_path), written |-> {image_path}]
    ELSE [image_path |-> "None", written |-> {}]

\* the dictionary scrape_channel appends for a message
message_data(message, channel_name, image_path) ==
    [message_id |-> message.id, channel_name |-> channel_name,
     message_date |-> message.date, message_text |-> message.text,
     has_media |-> message.media # "none", image_path |-> image_path,
     views |-> message.views, forwards |-> message.forwards]

\* an iteration that the failure of a download ends
RECURSIVE IterMessages_abort(_, _, _, _)
IterMessages_abort(tg, channel_name, failed, acc) ==
    IF tg = <<>> THEN acc
    ELSE LET message == tg[1]
             d == download_image(message, channel_name, failed)
         IN  IF message.text = "" /\ message.media = "none"
             THEN IterMessages_abort(Tail(tg), channel_name, failed, acc)
             ELSE IF IsImage(message) /\ <<channel_name, message.id>> \in failed
             THEN acc
             ELSE IterMessages_abort(Tail(tg), channel_name, failed,
                      [messages |-> Append(acc.messages,
                                           message_data(message, channel_name, d.image_path)),
                       written |-> acc.written \cup d.written])

\* async for message in iter_messages: skip a message without text and
\* media, download_image, append message_data
RECURSIVE IterMessages(_, _, _, _)
IterMessages(tg, channel_name, failed, acc) ==
    IF tg = <<>> THEN acc
    ELSE LET message == tg[1]
             d == download_image(message, channel_name, failed)
         IN  IF message.text = "" /\ message.media = "none"
             THEN IterMessages(Tail(tg), channel_name, failed, acc)
             ELSE IterMessages(Tail(tg), channel_name, failed,
                      [messages |-> Append(acc.messages,
                                           message_data(message, channel_name, d.image_path)),
                       written |-> acc.written \cup d.written])

\* the messages and image files a channel's scrape produces
scraped_feed(tg, channel_name, failed) ==
    IterMessages(tg, channel_name, failed, [messages |-> <<>>, written |-> {}])

\* the downloads that can fail: none, or that of one message of one channel
FailedDownloads == {{}} \cup {{<<ch, 1>>} : ch \in Channels}

\* the choices of Telegram feed for every channel
TgChoices == {tg \in [Channels -> UNION {TgFeeds[ch] : ch \in Channels}] :
                  \A ch \in Channels : tg[ch] \in TgFeeds[ch]}

\* the first run of the collector, over channels that hold media
CollectMedia(tg, failed) ==
    /\ saves = 0
    /\ LET feeds == [ch \in Channels |-> scraped_feed(tg[ch], ch, failed).messages]
           fails == [ch \in Channels |-> Len(feeds[ch]) + 1]
           r == scrape_all_channels(files, feeds, fails, TRUE)
       IN  /\ files' = r.files
           /\ images' = images \cup
                  UNION {scraped_feed(tg[r.scraped[i].channel], r.scraped[i].channel,
                                      failed).written : i \in DOMAIN r.scraped}
           /\ log' = [op |-> "collect", status |-> r.status, scraped |-> r.scraped,
                      tg |-> tg, failed |-> failed]
           /\ saves' = saves + Len(r.scraped)
    /\ UNCHANGED <<table, loads, detections, result, csv, yolo_table, schema_raw,
                   classifies, orchestration>>

NextMedia ==
    \/ \E tg \in TgChoices : \E failed \in FailedDownloads : CollectMedia(tg, failed)
    \/ \E o \in ScanOrders(files) : Load(o)
    \/ \E image_files \in GlobOrders(images) : ClassifierMain(image_files, {}, TRUE, TRUE)

SpecMedia == Init /\ [][NextMedia]_vars

\* the collector ran over channels with media and finished
CollectedMedia == log.op = "collect" /\ log.status = "finished" /\ "tg" \in DOMAIN log

\* the messages of a feed that scrape_channel keeps
RECURSIVE Kept(_)
Kept(tg) ==
    IF tg = <<>> THEN <<>>
    ELSE IF tg[1].text = "" /\ tg[1].media = "none" THEN Kept(Tail(tg))
    ELSE <<tg[1]>> \o Kept(Tail(tg))

\* C21: a download that fails does not stop the collection: every message
\* of the channel that has text or media is emitted, in order, and the
\* record whose download failed is emitted with has_media true and
\* image_path null.
C21_DownloadFailureIsolated ==
    CollectedMedia =>
        \A i \in DOMAIN log.scraped :
            LET ch == log.scraped[i].channel
                kept == Kept(log.tg[ch])
                out == log.scraped[i].messages
            IN  /\ Len(out) = Len(kept)
                /\ \A k \in DOMAIN kept :
                      /\ out[k].message_id = kept[k].id
                      /\ (IsImage(kept[k]) /\ <<ch, kept[k].id>> \in log.failed) =>
                            (out[k].has_media /\ out[k].image_path = "None")

\* the download of the photo of message 1 failed, the record was emitted
\* without image_path and the message after it was collected
C21_Witness ==
    /\ CollectedMedia
    /\ log.failed = {<<TELEGRAM_CHANNELS[1], 1>>}
    /\ log.tg[TELEGRAM_CHANNELS[1]] = <<TgPhoto1, TgText2>>
    /\ Len(log.scraped[1].messages) = 2
    /\ log.scraped[1].messages[1].has_media
    /\ log.scraped[1].messages[1].image_path = "None"
    /\ log.scraped[1].messages[2].message_id = 2
    /\ ImgChemed1 \notin images

\* the rows of raw.telegram_messages and the stored records that own image
\* file f: the record of that channel and id that has an image_path
OwnersInTable(f) ==
    {i \in DOMAIN table : /\ table[i].channel_name = f.channel
                          /\ table[i].message_id = StemValues[f.stem]
                          /\ table[i].image_path # "None"}

OwnersInStore(f) ==
    {m \in UNION {Range(files[key].data) : key \in FileKeys} :
        /\ m.channel_name = f.channel
        /\ m.message_id = StemValues[f.stem]
        /\ m.image_path # "None"}

\* C25: the image_path of the Detection the classifier makes for a
\* downloaded image equals the image_path of the record that owns the
\* image, in the store and in raw.telegram_messages.
C25_MediaRefAgreement ==
    Classified =>
        \A i \in DOMAIN log.image_files :
            LET f == log.image_files[i]
            IN  \A k \in ResultsFor(f) :
                    /\ \A t \in OwnersInTable(f) :
                           log.results[k].image_path = table[t].image_path
                    /\ \A m \in OwnersInStore(f) :
                           log.results[k].image_path = m.image_path

\* C27: no row of raw.yolo_detections has a message_id that rows of
\* raw.telegram_messages of two different channels carry.
C27_DetectionOwnerUnique ==
    \A d \in DOMAIN yolo_table :
        Cardinality({table[t].channel_name :
                        t \in {u \in DOMAIN table :
                                  table[u].message_id = yolo_table[d].message_id}}) <= 1

(***************************************************************************)
(* Termination of the ops.  subprocess.run is called without timeout, and  *)
(* so are the Telegram client, psycopg2.connect and the YOLO model inside  *)
(* the subordinate processes: an external call that never returns leaves   *)
(* the process, and the op that waits for it, where they are.              *)
(***************************************************************************)
\* no external call of the op's subordinate process has blocked
Responsive(o) == runlog[o] = <<>>

\* an external call made on behalf of a running op never returns
Hang(o) ==
    /\ stage[o] = "running"
    /\ Responsive(o)
    /\ runlog' = [runlog EXCEPT ![o] = [hung |-> TRUE]]
    /\ UNCHANGED <<files, table, log, saves, loads, detections, result, enrichment, stage>>

\* the subordinate process of an op exits, every call it made having returned
Finishes(o) ==
    /\ Responsive(o)
    /\ \/ /\ o = Scrape
          /\ \E feeds \in FeedChoices : \E connects \in BOOLEAN :
                FinishScrape(feeds, [ch \in Channels |-> Len(feeds[ch]) + 1], connects)
       \/ /\ o = LoadRaw
          /\ \E order \in ScanOrders(files) : \E db_up \in BOOLEAN : FinishLoad(order, db_up)
       \/ /\ o = Dbt
          /\ \E exits \in CommandExits(3) : FinishDbt(exits)
       \/ /\ o = Yolo
          /\ \E image_files \in GlobOrders(images) : \E model_loads \in BOOLEAN :
             \E dbt_exit \in {0, 1} :
                FinishYolo(image_files, {}, model_loads, TRUE, dbt_exit)

NextTermination ==
    \/ \E o \in Ops : StartOp(o)
    \/ \E o \in Ops : Hang(o)
    \/ \E o \in Ops : Finishes(o)

\* the executor starts every op that is ready, and a process whose calls
\* all return runs to its exit
FairTermination == \A o \in Ops : WF_vars(StartOp(o)) /\ WF_vars(Finishes(o))

SpecTermination == Init /\ [][NextTermination]_vars /\ FairTermination

\* C22: every op that is running ends succeeded or failed, also when an
\* external call made for it never returns.
C22_StageTerminates ==
    \A o \in Ops : (stage[o] = "running") ~> (stage[o] \in {"succeeded", "failed"})

====
